---- MODULE Spec2Model ----
(***************************************************************************)
(* vte2html: the terminal-state interpreter (struct Log and its Perform     *)
(* callbacks) and the HTML serializer loop of main, src/src/main.rs.        *)
(*                                                                          *)
(* Indices are the source's 0-based indices; a TLA+ sequence is 1-based, so *)
(* the source's chars[i] is chars[i + 1] here.                              *)
(***************************************************************************)
EXTENDS Integers, Sequences, FiniteSets, TLC

VARIABLES
    cursor,             \* Log.cursor
    chars,              \* Log.chars
    visuals,            \* Log.visuals
    visual_state,       \* Log.visual_state
    panic,              \* NoPanic, or the panic! that ended the process
    pc,                 \* position of main: "read", "serialize", "done", "panicked"
    i,                  \* index of the serializer loop of main
    previous_had_span,  \* main's previous_had_span
    out                 \* what has been printed on stdout, one element per print!

vars == <<cursor, chars, visuals, visual_state, panic, pc, i, previous_had_span, out>>

-----------------------------------------------------------------------------
(* Bounds of the model *)

\* longest buffer the model lets the input build
MaxLen == 3
\* largest number of values (parameters and subparameters) of one CSI dispatch
MaxParams == 2

-----------------------------------------------------------------------------
(* Values *)

\* Option::None, and the variants of Intensity
None == [tag |-> "None"]
Bold == [tag |-> "Bold"]
Faint == [tag |-> "Faint"]
LF == "\n"

\* Color::N(num); Color::RGB is never constructed by the program
N(num) == [tag |-> "N", num |-> num]
RGB(r, g, b) == [tag |-> "RGB", r |-> r, g |-> g, b |-> b]

VisualState(intensity, fg, bg) == [intensity |-> intensity, fg |-> fg, bg |-> bg]

VisualState_new == VisualState(None, None, None)

NoPanic == [msg |-> "none", arg |-> 0]
Panic(msg, arg) == [msg |-> msg, arg |-> arg]

\* the Log value held by main ("performer")
performer ==
    [cursor |-> cursor, chars |-> chars, visuals |-> visuals,
     visual_state |-> visual_state, panic |-> panic]

Panicked(log) == log.panic # NoPanic

\* `x as usize` of an i64: two's-complement wrap of a negative value.  The
\* modulus 2^64 is represented by UsizeModulus, which is larger than every
\* length and offset of the model.
UsizeModulus == 1073741824

AsUsize(x) == IF x < 0 THEN x + UsizeModulus ELSE x

-----------------------------------------------------------------------------
(* impl Log *)

\* mutant: the range check is missing
offset_cursor_unchecked(log, offset) ==
    IF Panicked(log) THEN log
    ELSE [log EXCEPT !.cursor = AsUsize(log.cursor + offset)]

\* mutant: a position beyond the buffer is clamped to its length
offset_cursor_clamped(log, offset) ==
    LET new_cursor == AsUsize(log.cursor + offset)
    IN  IF Panicked(log) THEN log
        ELSE IF new_cursor > Len(log.chars)
             THEN [log EXCEPT !.cursor = Len(log.chars)]
             ELSE [log EXCEPT !.cursor = new_cursor]

offset_cursor(log, offset) ==
    LET new_cursor == AsUsize(log.cursor + offset)
    IN  IF Panicked(log) THEN log
        ELSE IF new_cursor > Len(log.chars)
             THEN [log EXCEPT !.panic = Panic("offset_cursor", new_cursor)]
             ELSE [log EXCEPT !.cursor = new_cursor]

\* mutant: an overwrite leaves the old style of the cell
write_keeps_style(log, c) ==
    IF Panicked(log) THEN log
    ELSE IF Len(log.chars) > log.cursor
         THEN offset_cursor([log EXCEPT !.chars[log.cursor + 1] = c], 1)
    ELSE IF Len(log.chars) = log.cursor
         THEN offset_cursor(
                  [log EXCEPT !.chars = Append(log.chars, c),
                              !.visuals = Append(log.visuals, log.visual_state)], 1)
    ELSE [log EXCEPT !.panic = Panic("write", log.cursor)]

write(log, c) ==
    IF Panicked(log) THEN log
    ELSE IF Len(log.chars) > log.cursor
         THEN offset_cursor(
                  [log EXCEPT !.chars[log.cursor + 1] = c,
                              !.visuals[log.cursor + 1] = log.visual_state], 1)
    ELSE IF Len(log.chars) = log.cursor
         THEN offset_cursor(
                  [log EXCEPT !.chars = Append(log.chars, c),
                              !.visuals = Append(log.visuals, log.visual_state)], 1)
    ELSE [log EXCEPT !.panic = Panic("write", log.cursor)]

\* mutant: the cursor is put on the newline found, not after it
RECURSIVE scan_back_on_newline(_, _)
scan_back_on_newline(log, k) ==
    IF k < 0 THEN [log EXCEPT !.cursor = 0]
    ELSE IF log.chars[k + 1] = LF THEN [log EXCEPT !.cursor = k]
    ELSE scan_back_on_newline(log, k - 1)

\* the loop `for i in (0..=self.cursor-1).rev()`, entered at k = cursor - 1
RECURSIVE scan_back(_, _)
scan_back(log, k) ==
    IF k < 0 THEN [log EXCEPT !.cursor = 0]
    ELSE IF log.chars[k + 1] = LF THEN [log EXCEPT !.cursor = k + 1]
    ELSE scan_back(log, k - 1)

cursor_to_start_of_line(log) ==
    IF Panicked(log) THEN log
    ELSE IF log.cursor = 0 THEN log
    ELSE scan_back(log, log.cursor - 1)

\* mutant: only chars is drained
delete_range_chars_only(log, from, to) ==
    LET cs == SubSeq(log.chars, 1, from) \o SubSeq(log.chars, to + 1, Len(log.chars))
    IN  [log EXCEPT !.chars = cs,
                    !.cursor = IF log.cursor > Len(cs) THEN Len(cs) ELSE log.cursor]

delete_range(log, from, to) ==
    LET cs == SubSeq(log.chars, 1, from) \o SubSeq(log.chars, to + 1, Len(log.chars))
        vs == SubSeq(log.visuals, 1, from) \o SubSeq(log.visuals, to + 1, Len(log.visuals))
    IN  [log EXCEPT !.chars = cs,
                    !.visuals = vs,
                    !.cursor = IF log.cursor > Len(cs) THEN Len(cs) ELSE log.cursor]

\* mutant: the newline found is deleted with the rest of the line
RECURSIVE scan_forward_through_newline(_, _)
scan_forward_through_newline(log, k) ==
    IF k >= Len(log.chars) THEN delete_range(log, log.cursor, Len(log.chars))
    ELSE IF log.chars[k + 1] = LF THEN delete_range(log, log.cursor, k + 1)
    ELSE scan_forward_through_newline(log, k + 1)

\* mutant: one cell is erased, not the rest of the line
scan_forward_one_cell(log, k) ==
    IF k >= Len(log.chars) \/ log.chars[k + 1] = LF
    THEN delete_range(log, log.cursor, log.cursor)
    ELSE delete_range(log, log.cursor, log.cursor + 1)

\* the loop `for i in self.cursor..self.chars.len()`, entered at k = cursor
RECURSIVE scan_forward(_, _)
scan_forward(log, k) ==
    IF k >= Len(log.chars) THEN delete_range(log, log.cursor, Len(log.chars))
    ELSE IF log.chars[k + 1] = LF THEN delete_range(log, log.cursor, k)
    ELSE scan_forward(log, k + 1)

\* mutant: the line is erased from its start
delete_to_end_of_line_whole_line(log) ==
    IF Panicked(log) THEN log
    ELSE LET to == log.cursor + Len(log.chars) - Len(scan_forward(log, log.cursor).chars)
         IN  delete_range(log, cursor_to_start_of_line(log).cursor, to)

delete_to_end_of_line(log) ==
    IF Panicked(log) THEN log ELSE scan_forward(log, log.cursor)

set_intensity(log, intensity) ==
    [log EXCEPT !.visual_state =
        VisualState(intensity, log.visual_state.fg, log.visual_state.bg)]

\* mutant: setting the foreground drops the background
set_fg_resets_bg(log, fg) ==
    [log EXCEPT !.visual_state = VisualState(log.visual_state.intensity, fg, None)]

set_fg(log, fg) ==
    [log EXCEPT !.visual_state =
        VisualState(log.visual_state.intensity, fg, log.visual_state.bg)]

set_bg(log, bg) ==
    [log EXCEPT !.visual_state =
        VisualState(log.visual_state.intensity, log.visual_state.fg, bg)]

-----------------------------------------------------------------------------
(* impl Perform for Log *)

\* Params of the tokenizer: a sequence of parameter groups, each a non-empty
\* sequence of u16 values (a parameter and its subparameters).
RECURSIVE Flatten(_)
Flatten(params) ==
    IF params = <<>> THEN <<>> ELSE Head(params) \o Flatten(Tail(params))

\* params.len(): the tokenizer's Params counts every value it holds,
\* parameters and subparameters alike.
params_len(params) == Len(Flatten(params))

\* one arm of `match p` of the 'm' command
\* mutant: code 2 selects the faint intensity
sgr_code_faint(log, p) ==
    IF p = 0 THEN [log EXCEPT !.visual_state = VisualState_new]
    ELSE IF p = 1 THEN set_intensity(log, Bold)
    ELSE IF p = 2 THEN set_intensity(log, Faint)
    ELSE IF p = 22 THEN set_intensity(log, None)
    ELSE IF p \in 30..37 THEN set_fg(log, N(p))
    ELSE IF p = 39 THEN set_fg(log, None)
    ELSE IF p \in 40..47 THEN set_bg(log, N(p))
    ELSE IF p = 49 THEN set_bg(log, None)
    ELSE IF p \in 90..97 THEN set_fg(log, N(p))
    ELSE IF p \in 100..107 THEN set_bg(log, N(p))
    ELSE log

sgr_code(log, p) ==
    IF p = 0 THEN [log EXCEPT !.visual_state = VisualState_new]
    ELSE IF p = 1 THEN set_intensity(log, Bold)
    ELSE IF p = 22 THEN set_intensity(log, None)
    ELSE IF p \in 30..37 THEN set_fg(log, N(p))
    ELSE IF p = 39 THEN set_fg(log, None)
    ELSE IF p \in 40..47 THEN set_bg(log, N(p))
    ELSE IF p = 49 THEN set_bg(log, None)
    ELSE IF p \in 90..97 THEN set_fg(log, N(p))
    ELSE IF p \in 100..107 THEN set_bg(log, N(p))
    ELSE log

\* mutant: every erase mode erases to the end of the line
erase_mode_any(log, p) ==
    IF Panicked(log) THEN log ELSE delete_to_end_of_line(log)

erase_mode(log, p) ==
    IF Panicked(log) THEN log
    ELSE IF p = 0 THEN delete_to_end_of_line(log)
    ELSE [log EXCEPT !.panic = Panic("deletion_mode", p)]

\* `for ps in params { for p in ps { ... } }`: the values in order, group by
\* group, each handed to the arm of the command
\* mutant: the codes are applied last to first
RECURSIVE for_each_sgr_reversed(_, _)
for_each_sgr_reversed(log, ps) ==
    IF ps = <<>> THEN log
    ELSE sgr_code(for_each_sgr_reversed(log, Tail(ps)), Head(ps))

RECURSIVE for_each_sgr(_, _)
for_each_sgr(log, ps) ==
    IF ps = <<>> THEN log ELSE for_each_sgr(sgr_code(log, Head(ps)), Tail(ps))

RECURSIVE for_each_erase(_, _)
for_each_erase(log, ps) ==
    IF ps = <<>> THEN log ELSE for_each_erase(erase_mode(log, Head(ps)), Tail(ps))

RECURSIVE for_each_offset(_, _)
for_each_offset(log, ps) ==
    IF ps = <<>> THEN log ELSE for_each_offset(offset_cursor(log, Head(ps)), Tail(ps))

\* mutant: the new style is also given to the cells already written
csi_m_restyles_cells(log, params) ==
    LET l == for_each_sgr(log, Flatten(params))
    IN  [l EXCEPT !.visuals = [k \in 1..Len(l.visuals) |-> l.visual_state]]

csi_m(log, params) == for_each_sgr(log, Flatten(params))

csi_K(log, params) ==
    IF params_len(params) = 1
    THEN for_each_erase(log, Flatten(params))
    ELSE [log EXCEPT !.panic = Panic("K_params", params_len(params))]

csi_C(log, params) ==
    IF params_len(params) = 1
    THEN for_each_offset(log, Flatten(params))
    ELSE [log EXCEPT !.panic = Panic("C_params", params_len(params))]

csi_dispatch(log, params, c) ==
    IF c = "m" THEN csi_m(log, params)
    ELSE IF c = "K" THEN csi_K(log, params)
    ELSE IF c = "C" THEN csi_C(log, params)
    ELSE log

print(log, c) == write(log, c)

\* mutant: backspace (0x08) moves the cursor one cell back
execute_backspace(log, byte) ==
    IF byte = 10 THEN write(log, LF)
    ELSE IF byte = 13 THEN cursor_to_start_of_line(log)
    ELSE IF byte = 8 /\ log.cursor > 0 THEN [log EXCEPT !.cursor = log.cursor - 1]
    ELSE log

\* mutant: the line feed is appended at the end of the buffer
execute_appends_newline(log, byte) ==
    IF byte = 10
    THEN [log EXCEPT !.chars = Append(log.chars, LF),
                     !.visuals = Append(log.visuals, log.visual_state),
                     !.cursor = Len(log.chars) + 1]
    ELSE IF byte = 13 THEN cursor_to_start_of_line(log)
    ELSE log

execute(log, byte) ==
    IF byte = 10 THEN write(log, LF)
    ELSE IF byte = 13 THEN cursor_to_start_of_line(log)
    ELSE log

hook(log) == log
put(log) == log
unhook(log) == log
osc_dispatch(log) == log
esc_dispatch(log) == log

-----------------------------------------------------------------------------
(* The tokenizer's events: what Parser::advance calls on the performer *)

PrintChars == {"a", "X"}
ExecBytes == {10, 13, 8}
CsiFinals == {"m", "K", "C", "H"}

\* every way of cutting a flat sequence of values into parameter groups
RECURSIVE Groupings(_)
Groupings(s) ==
    IF s = <<>> THEN {<<>>}
    ELSE UNION { { <<SubSeq(s, 1, k)>> \o g : g \in Groupings(SubSeq(s, k + 1, Len(s))) }
                 : k \in 1..Len(s) }

ParamsOver(V) ==
    UNION { Groupings(s) : s \in UNION { [1..k -> V] : k \in 1..MaxParams } }

\* one parameter group holding one value
Single(V) == { <<<<v>>>> : v \in V }

\* the values the model's input carries: SGR codes (reset, bold, a code that
\* is not in the table), erase modes, cursor offsets
SgrValues == {0, 1, 5}
EraseValues == {0, 1}
OffsetValues == 0..(MaxLen + 1)

CsiParams(c) ==
    IF c = "m" THEN ParamsOver(SgrValues)
    ELSE IF c = "K" THEN Single(EraseValues) \cup ParamsOver({0})
    ELSE IF c = "C" THEN Single(OffsetValues) \cup ParamsOver({1})
    ELSE Single({0})

Event(kind, arg, params) == [kind |-> kind, arg |-> arg, params |-> params]

\* the callback an event is delivered to
advance(log, e) ==
    IF e.kind = "print" THEN print(log, e.arg)
    ELSE IF e.kind = "execute" THEN execute(log, e.arg)
    ELSE IF e.kind = "csi_dispatch" THEN csi_dispatch(log, e.params, e.arg)
    ELSE IF e.kind = "hook" THEN hook(log)
    ELSE IF e.kind = "put" THEN put(log)
    ELSE IF e.kind = "unhook" THEN unhook(log)
    ELSE IF e.kind = "osc_dispatch" THEN osc_dispatch(log)
    ELSE esc_dispatch(log)

\* the performer after a sequence of events, from a given Log; a panic ends it
RECURSIVE Run(_, _)
Run(log, events) ==
    IF events = <<>> \/ Panicked(log) THEN log
    ELSE Run(advance(log, Head(events)), Tail(events))

Log_new ==
    [cursor |-> 0, chars |-> <<>>, visuals |-> <<>>,
     visual_state |-> VisualState_new, panic |-> NoPanic]

-----------------------------------------------------------------------------
(* print_span and the serializer loop of main *)

ClassDigits(n) == ToString(n)

RECURSIVE join(_, _)
join(classes, sep) ==
    IF classes = <<>> THEN ""
    ELSE IF Len(classes) = 1 THEN classes[1]
    ELSE classes[1] \o sep \o join(Tail(classes), sep)

intensity_classes(visual) ==
    IF visual.intensity = Bold THEN <<"sgr-bold">>
    ELSE IF visual.intensity = Faint THEN <<"sgr-faint">>
    ELSE <<>>

\* mutant: the bright foregrounds get the class of the normal ones
fg_classes_no_bright(visual) ==
    IF visual.fg = None \/ visual.fg.tag = "RGB" THEN [classes |-> <<>>, panic |-> NoPanic]
    ELSE IF visual.fg.num \in 30..37
         THEN [classes |-> <<"sgr-fg-" \o ClassDigits(visual.fg.num - 29)>>, panic |-> NoPanic]
    ELSE IF visual.fg.num \in 90..97
         THEN [classes |-> <<"sgr-fg-" \o ClassDigits(visual.fg.num - 89)>>, panic |-> NoPanic]
    ELSE [classes |-> <<>>, panic |-> Panic("fg_color", visual.fg.num)]

fg_classes(visual) ==
    IF visual.fg = None \/ visual.fg.tag = "RGB" THEN [classes |-> <<>>, panic |-> NoPanic]
    ELSE IF visual.fg.num \in 30..37
         THEN [classes |-> <<"sgr-fg-" \o ClassDigits(visual.fg.num - 29)>>, panic |-> NoPanic]
    ELSE IF visual.fg.num \in 90..97
         THEN [classes |-> <<"sgr-fg-b" \o ClassDigits(visual.fg.num - 89)>>, panic |-> NoPanic]
    ELSE [classes |-> <<>>, panic |-> Panic("fg_color", visual.fg.num)]

bg_classes(visual) ==
    IF visual.bg = None \/ visual.bg.tag = "RGB" THEN [classes |-> <<>>, panic |-> NoPanic]
    ELSE IF visual.bg.num \in 40..47
         THEN [classes |-> <<"sgr-bg-" \o ClassDigits(visual.bg.num - 39)>>, panic |-> NoPanic]
    ELSE IF visual.bg.num \in 100..107
         THEN [classes |-> <<"sgr-bg-b" \o ClassDigits(visual.bg.num - 99)>>, panic |-> NoPanic]
    ELSE [classes |-> <<>>, panic |-> Panic("bg_color", visual.bg.num)]

\* mutant: a span is opened even when the class list is empty
print_span_always(visual) ==
    LET classes == intensity_classes(visual) \o fg_classes(visual).classes
                       \o bg_classes(visual).classes
    IN  [printed |-> IF classes # <<>>
                     THEN <<"<span", " class=\"" \o join(classes, " ") \o "\"", ">">>
                     ELSE <<"<span", ">">>,
         span_printed |-> TRUE,
         panic |-> NoPanic]

\* print_span: what it prints, what it returns, and the panic of a color
\* outside the ranges (the fg match comes before the bg match)
print_span(visual) ==
    LET f == fg_classes(visual)
        b == bg_classes(visual)
        classes == intensity_classes(visual) \o f.classes \o b.classes
        span_printed == classes # <<>>
    IN  IF f.panic # NoPanic THEN [printed |-> <<>>, span_printed |-> FALSE, panic |-> f.panic]
        ELSE IF b.panic # NoPanic THEN [printed |-> <<>>, span_printed |-> FALSE, panic |-> b.panic]
        ELSE [printed |-> IF span_printed
                          THEN <<"<span", " class=\"" \o join(classes, " ") \o "\"", ">">>
                          ELSE <<>>,
              span_printed |-> span_printed,
              panic |-> NoPanic]

\* mutant: a span is closed and opened at every index, not only where the
\* style changes
serialize_step_every_index(cs, vs, k, prev) ==
    LET closing == IF k # 0 /\ prev THEN <<"</span>">> ELSE <<>>
        span == print_span(vs[k + 1])
        last == IF k = Len(cs) - 1 /\ span.span_printed THEN <<"</span>">> ELSE <<>>
    IN  [printed |-> closing \o span.printed \o <<cs[k + 1]>> \o last,
         previous_had_span |-> span.span_printed,
         panic |-> span.panic]

\* one iteration of `for i in 0..performer.chars.len()`, at index k
\* mutant: the span open after the last character is not closed
serialize_step_no_final_close(cs, vs, k, prev) ==
    LET restyle == k = 0 \/ vs[k + 1] # vs[k]
        closing == IF k # 0 /\ restyle /\ prev THEN <<"</span>">> ELSE <<>>
        span == IF restyle THEN print_span(vs[k + 1])
                ELSE [printed |-> <<>>, span_printed |-> prev, panic |-> NoPanic]
    IN  IF span.panic # NoPanic
        THEN [printed |-> closing, previous_had_span |-> prev, panic |-> span.panic]
        ELSE [printed |-> closing \o span.printed \o <<cs[k + 1]>>,
              previous_had_span |-> span.span_printed, panic |-> NoPanic]

serialize_step(cs, vs, k, prev) ==
    LET restyle == k = 0 \/ vs[k + 1] # vs[k]
        closing == IF k # 0 /\ restyle /\ prev THEN <<"</span>">> ELSE <<>>
        span == IF restyle THEN print_span(vs[k + 1])
                ELSE [printed |-> <<>>, span_printed |-> prev, panic |-> NoPanic]
        last == IF k = Len(cs) - 1 /\ span.span_printed THEN <<"</span>">> ELSE <<>>
    IN  IF span.panic # NoPanic
        THEN [printed |-> closing, previous_had_span |-> prev, panic |-> span.panic]
        ELSE [printed |-> closing \o span.printed \o <<cs[k + 1]>> \o last,
              previous_had_span |-> span.span_printed,
              panic |-> NoPanic]

\* the whole loop from index k on: everything it prints for a finished buffer
RECURSIVE serialize_from(_, _, _, _)
serialize_from(cs, vs, k, prev) ==
    IF k >= Len(cs) THEN <<>>
    ELSE LET s == serialize_step(cs, vs, k, prev)
         IN  IF s.panic # NoPanic THEN s.printed
             ELSE s.printed \o serialize_from(cs, vs, k + 1, s.previous_had_span)

serialize(log) == serialize_from(log.chars, log.visuals, 0, FALSE)

-----------------------------------------------------------------------------
(* main *)

Init ==
    /\ cursor = 0
    /\ chars = <<>>
    /\ visuals = <<>>
    /\ visual_state = VisualState_new
    /\ panic = NoPanic
    /\ pc = "read"
    /\ i = 0
    /\ previous_had_span = FALSE
    /\ out = <<>>

\* statemachine.advance(&mut performer, byte) delivering one event
Deliver(log) ==
    /\ pc = "read"
    /\ Len(log.chars) <= MaxLen
    /\ cursor' = log.cursor
    /\ chars' = log.chars
    /\ visuals' = log.visuals
    /\ visual_state' = log.visual_state
    /\ panic' = log.panic
    /\ pc' = IF Panicked(log) THEN "panicked" ELSE "read"
    /\ UNCHANGED <<i, previous_had_span, out>>

OnPrint == \E c \in PrintChars : Deliver(print(performer, c))

OnExecute == \E byte \in ExecBytes : Deliver(execute(performer, byte))

OnCsiDispatch ==
    \E c \in CsiFinals : \E params \in CsiParams(c) :
        Deliver(csi_dispatch(performer, params, c))

OnHook == Deliver(hook(performer))

OnPut == Deliver(put(performer))

OnUnhook == Deliver(unhook(performer))

OnOscDispatch == Deliver(osc_dispatch(performer))

OnEscDispatch == Deliver(esc_dispatch(performer))

\* handle.read returns Ok(0): the loop breaks and the serializer loop starts
ReadEof ==
    /\ pc = "read"
    /\ pc' = IF Len(chars) = 0 THEN "done" ELSE "serialize"
    /\ UNCHANGED <<cursor, chars, visuals, visual_state, panic, i, previous_had_span, out>>

\* handle.read returns Err: println!, break, and the serializer loop starts
ReadErr ==
    /\ pc = "read"
    /\ out' = Append(out, "err: io::Error\n")
    /\ pc' = IF Len(chars) = 0 THEN "done" ELSE "serialize"
    /\ UNCHANGED <<cursor, chars, visuals, visual_state, panic, i, previous_had_span>>

SerializeStep ==
    /\ pc = "serialize"
    /\ LET s == serialize_step(chars, visuals, i, previous_had_span)
       IN  /\ out' = out \o s.printed
           /\ previous_had_span' = s.previous_had_span
           /\ panic' = s.panic
           /\ IF s.panic # NoPanic
              THEN pc' = "panicked" /\ i' = i
              ELSE /\ i' = i + 1
                   /\ pc' = IF i + 1 = Len(chars) THEN "done" ELSE "serialize"
    /\ UNCHANGED <<cursor, chars, visuals, visual_state>>

Next ==
    \/ OnPrint
    \/ OnExecute
    \/ OnCsiDispatch
    \/ OnHook
    \/ OnPut
    \/ OnUnhook
    \/ OnOscDispatch
    \/ OnEscDispatch
    \/ ReadEof
    \/ ReadErr
    \/ SerializeStep

Spec == Init /\ [][Next]_vars

-----------------------------------------------------------------------------
(* The program fed SGR sequences only, over codes of every row of the table *)

SgrTableValues ==
    {0, 1, 22, 39, 49} \cup {30, 31, 33, 37, 90, 91, 97}
        \cup {40, 44, 47, 100, 101, 107} \cup {2, 5}

\* the codes that dispatches of several values are made of
SgrSeqValues == {0, 1, 22, 31, 39, 44, 49, 97, 5}

\* a dispatch of one code of SgrTableValues
OnCsiSgrOne ==
    \E params \in Single(SgrTableValues) :
        Deliver(csi_dispatch(performer, params, "m"))

\* a dispatch of up to MaxParams codes, in every grouping
OnCsiSgrMany ==
    \E n \in 1..MaxParams : \E codes \in [1..n -> SgrSeqValues] :
        \E params \in Groupings(codes) :
            Deliver(csi_dispatch(performer, params, "m"))

NextSgr ==
    \/ OnCsiSgrOne
    \/ OnCsiSgrMany

SpecSgr == Init /\ [][NextSgr]_vars

-----------------------------------------------------------------------------
(* The program fed plain text only: print events and line feeds *)

OnLineFeed == Deliver(execute(performer, 10))

NextPlain ==
    \/ OnPrint
    \/ OnLineFeed
    \/ ReadEof
    \/ SerializeStep

SpecPlain == Init /\ [][NextPlain]_vars

-----------------------------------------------------------------------------
(* The program fed one printable character and SGR dispatches that touch all *)
(* three channels, then end-of-stream: buffers whose neighbouring cells      *)
(* carry different non-empty styles, and their serialization                 *)

SerChars == {"a"}
\* reset, bold, a code that is not in the table
SerValues == {0, 1, 2}
\* the parameters of the dispatches: one code of SerValues, or a bright
\* foreground and a bright background in two groups
SerParams == Single(SerValues) \cup {<<<<97>>, <<100>>>>}

OnPrintSer == \E c \in SerChars : Deliver(print(performer, c))

OnCsiSer ==
    \E params \in SerParams :
        Deliver(csi_dispatch(performer, params, "m"))

NextSer ==
    \/ OnPrintSer
    \/ OnCsiSer
    \/ ReadEof
    \/ SerializeStep

SpecSer == Init /\ [][NextSer]_vars

-----------------------------------------------------------------------------
(* Definitions the properties below are stated with *)

Max(S) == CHOOSE x \in S : \A y \in S : y <= x
Min(S) == CHOOSE x \in S : \A y \in S : x <= y

\* the characters a write is tried with
WriteChars == PrintChars \cup {LF, "b"}

\* events of the examples
Pr(c) == Event("print", c, <<>>)
Ex(byte) == Event("execute", byte, <<>>)
Csi(params, c) == Event("csi_dispatch", c, params)

\* the events of the input "abc\rX"
AbcCrX == <<Pr("a"), Pr("b"), Pr("c"), Ex(13), Pr("X")>>

\* indices (0-based) of the newline cells of a buffer
Newlines(cs) == { k \in 0..(Len(cs) - 1) : cs[k + 1] = LF }

\* the performer with its cursor moved back to any earlier position: Logs in
\* which newline cells can lie at or after the cursor
CursorMovedBack == { [performer EXCEPT !.cursor = c] : c \in 0..cursor }

\* what erase-to-end-of-line is to do with a Log
ErasedRight(log, post) ==
    LET after == { k \in Newlines(log.chars) : k >= log.cursor }
        j == IF after = {} THEN Len(log.chars) ELSE Min(after)
        gone == j - log.cursor
    IN  /\ Len(post.chars) = Len(log.chars) - gone
        /\ Len(post.visuals) = Len(log.visuals) - gone
        /\ \A k \in 1..Len(post.chars) :
               /\ post.chars[k] = log.chars[IF k <= log.cursor THEN k ELSE k + gone]
               /\ post.visuals[k] = log.visuals[IF k <= log.cursor THEN k ELSE k + gone]
        /\ post.panic = NoPanic

\* the buffer part of a Log is untouched
SameBuffer(a, b) == a.chars = b.chars /\ a.visuals = b.visuals

-----------------------------------------------------------------------------
(* Properties *)

\* C1: in every reachable state 0 <= cursor <= len(chars); a cursor motion that
\* would leave this range is signalled as the fatal offset_cursor condition with
\* the offending position (beyond len) and the cursor left where it was, never
\* clamped; the `cursor > len` branch of write is never the panic reached.
C1_CursorInRange ==
    /\ 0 <= cursor
    /\ cursor <= Len(chars)
    /\ panic.msg # "write"
    /\ panic.msg = "offset_cursor" => panic.arg > Len(chars)

C1_Witness ==
    /\ pc = "panicked"
    /\ panic.msg = "offset_cursor"
    /\ cursor < Len(chars)

\* C2: in every reachable state chars and visuals have the same length.
C2_SameLength == Len(chars) = Len(visuals)

C2_Witness ==
    /\ pc = "read"
    /\ Len(chars) = 2
    /\ cursor = 1
    /\ visuals[1] # visuals[2]
    /\ chars[1] = LF

\* C3: in every reachable state of the input loop, write(c) with cursor < len
\* replaces exactly the cell at cursor by (c, current style), keeps len and all
\* other cells, and advances the cursor by 1; with cursor = len it appends
\* (c, current style), len grows by 1, the existing cells are kept and the
\* cursor advances by 1; the style state is unchanged and nothing is fatal.
C3_WriteEffect ==
    pc = "read" =>
        \A c \in WriteChars :
            LET post == print(performer, c)
                n == Len(chars)
            IN  /\ post.panic = NoPanic
                /\ post.visual_state = visual_state
                /\ post.cursor = cursor + 1
                /\ Len(post.chars) = (IF cursor < n THEN n ELSE n + 1)
                /\ Len(post.visuals) = Len(post.chars)
                /\ post.chars[cursor + 1] = c
                /\ post.visuals[cursor + 1] = visual_state
                /\ \A k \in 1..n :
                       k # cursor + 1 =>
                           /\ post.chars[k] = chars[k]
                           /\ post.visuals[k] = visuals[k]

\* an overwrite has happened: a bold "X" written over the first of two cells
C3_Witness ==
    /\ pc = "read"
    /\ chars = <<"X", "a">>
    /\ cursor = 1
    /\ visuals[1].intensity = Bold
    /\ visuals[2].intensity = None

\* C4: in every reachable state of the input loop, execute(carriage return)
\* sets the cursor to i + 1 for the largest i < cursor with chars[i] a newline,
\* or to 0 when there is none, and changes neither chars, styles nor the style
\* state; the input "abc\rX" leaves the buffer "Xbc".
C4_CarriageReturn ==
    /\ pc = "read" =>
           LET post == execute(performer, 13)
               before == { k \in Newlines(chars) : k < cursor }
           IN  /\ post.cursor = (IF before = {} THEN 0 ELSE Max(before) + 1)
               /\ SameBuffer(post, performer)
               /\ post.visual_state = visual_state
               /\ post.panic = NoPanic
    /\ Run(Log_new, AbcCrX).chars = <<"X", "b", "c">>
    /\ Run(Log_new, AbcCrX).cursor = 1

\* the cursor stands at the start of a second line, a newline further back
C4_Witness ==
    /\ pc = "read"
    /\ Len(chars) = 3
    /\ chars[2] = LF
    /\ chars[3] # LF
    /\ cursor = 2
    /\ execute([performer EXCEPT !.cursor = 3], 13).cursor = 2

\* C5: in every reachable state of the input loop, delete_to_end_of_line
\* removes exactly the cells [cursor, j) from chars and visuals alike, j the
\* smallest index >= cursor holding a newline, or len; the cells before cursor
\* and from j on are kept in order; "abc\rX\x1b[K" leaves the buffer "X".
\* (No reachable state has a newline at or after the cursor, so there j = len;
\* the second conjunct applies the function to the buffer with the cursor
\* moved back, where the scan does meet newlines.)
C5_EraseToEndOfLine ==
    /\ pc = "read" => ErasedRight(performer, delete_to_end_of_line(performer))
    /\ pc = "read" =>
           \A log \in CursorMovedBack : ErasedRight(log, delete_to_end_of_line(log))
    /\ Run(Log_new, AbcCrX \o <<Csi(<<<<0>>>>, "K")>>).chars = <<"X">>

\* an erase on the second line that removes two cells and keeps the first line
C5_Witness ==
    /\ pc = "read"
    /\ cursor = 1
    /\ Len(chars) = 3
    /\ chars[1] = LF
    /\ delete_to_end_of_line(performer).chars = <<LF>>
    /\ delete_to_end_of_line(performer).visuals = <<visuals[1]>>

\* C6: in every reachable state of the input loop, a CSI 'C' with one group
\* holding the one offset n moves the cursor to cursor + n and changes nothing
\* else when cursor + n <= len; otherwise it is the fatal offset_cursor
\* condition for position cursor + n, the cursor neither clamped nor wrapped.
\* offset_cursor with a delta that makes the position negative is fatal too.
\* "ab\x1b[5C" is fatal.
C6_CursorForward ==
    /\ pc = "read" =>
           /\ \A n \in OffsetValues \cup {65535} :
                  LET post == csi_dispatch(performer, <<<<n>>>>, "C")
                  IN  IF cursor + n <= Len(chars)
                      THEN post = [performer EXCEPT !.cursor = cursor + n]
                      ELSE /\ post.panic = Panic("offset_cursor", cursor + n)
                           /\ post.cursor = cursor
                           /\ SameBuffer(post, performer)
           /\ \A d \in 1..(MaxLen + 1) :
                  LET post == offset_cursor(performer, 0 - d)
                  IN  IF cursor - d < 0
                      THEN post.panic.msg = "offset_cursor" /\ post.cursor = cursor
                      ELSE post = [performer EXCEPT !.cursor = cursor - d]
    /\ LET r == Run(Log_new, <<Pr("a"), Pr("b"), Csi(<<<<5>>>>, "C")>>)
       IN  r.panic = Panic("offset_cursor", 7) /\ r.cursor = 2

\* a cursor-forward that went through, over two written cells
C6_Witness ==
    /\ pc = "read"
    /\ Len(chars) = 3
    /\ cursor = 2
    /\ csi_dispatch([performer EXCEPT !.cursor = 0], <<<<2>>>>, "C") = performer
    /\ Panicked(csi_dispatch(performer, <<<<2>>>>, "C"))

\* the parameters a CSI 'K' is tried with
EraseParams == Single(0..3) \cup ParamsOver({0, 1})

\* C7: in every reachable state of the input loop, a CSI 'K' erases from the
\* cursor to the end of the line exactly when it carries one parameter group
\* whose single value is 0; any other erase mode and any other number of
\* parameters is fatal, with the buffer and the cursor as they were.
C7_EraseInLine ==
    pc = "read" =>
        \A params \in EraseParams :
            LET post == csi_dispatch(performer, params, "K")
            IN  IF params = <<<<0>>>>
                THEN post = delete_to_end_of_line(performer) /\ post.panic = NoPanic
                ELSE /\ Panicked(post)
                     /\ post.panic.msg =
                            (IF Len(params) = 1 /\ Len(params[1]) = 1
                             THEN "deletion_mode" ELSE "K_params")
                     /\ SameBuffer(post, performer)
                     /\ post.cursor = cursor

\* an unsupported erase mode was fatal with cells still right of the cursor
C7_Witness ==
    /\ pc = "panicked"
    /\ panic = Panic("deletion_mode", 1)
    /\ cursor = 1
    /\ Len(chars) = 3

-----------------------------------------------------------------------------
(* Properties of the style state, under SpecSgr *)

Channels == {"intensity", "fg", "bg"}

Changed(a, b) == { ch \in Channels : a[ch] # b[ch] }

\* every value a single SGR code can take in the range of the table and
\* around it
AllCodes == 0..110

\* C8: in every reachable state, a single SGR code other than 0 changes at most
\* one of intensity, fg and bg and leaves the others, the buffer and the cursor
\* as they were; code 0 sets all three to unset.  After 31;44 and then 39 the
\* background is still N(44) and the foreground is unset.
C8_ChannelsIndependent ==
    /\ pc = "read" =>
           \A p \in AllCodes :
               LET post == csi_dispatch(performer, <<<<p>>>>, "m")
               IN  /\ IF p = 0
                      THEN post.visual_state = VisualState_new
                      ELSE Cardinality(Changed(post.visual_state, visual_state)) <= 1
                   /\ SameBuffer(post, performer)
                   /\ post.cursor = cursor
                   /\ post.panic = NoPanic
    /\ Run(Log_new, <<Csi(<<<<31>>, <<44>>>>, "m"), Csi(<<<<39>>>>, "m")>>).visual_state
           = VisualState(None, None, N(44))

\* all three channels are set: a code of one channel has two others to leave
\* alone, and code 0 has three to clear
C8_Witness ==
    /\ pc = "read"
    /\ visual_state = VisualState(Bold, N(31), N(44))
    /\ Changed(csi_dispatch(performer, <<<<39>>>>, "m").visual_state, visual_state) = {"fg"}
    /\ Changed(csi_dispatch(performer, <<<<0>>>>, "m").visual_state, visual_state) = Channels

\* the code table of the specification: the channel a code writes, and the value
Affects(p, ch) ==
    IF ch = "intensity" THEN p \in {0, 1, 22}
    ELSE IF ch = "fg" THEN p \in {0, 39} \cup (30..37) \cup (90..97)
    ELSE p \in {0, 49} \cup (40..47) \cup (100..107)

TableValue(p, ch) ==
    IF p \in {0, 22, 39, 49} THEN None
    ELSE IF ch = "intensity" THEN Bold
    ELSE N(p)

\* the codes of a dispatch in the order given: the groups in order, the values
\* of a group in order
RECURSIVE CodesInOrder(_)
CodesInOrder(params) ==
    IF Len(params) = 0 THEN <<>>
    ELSE CodesInOrder(SubSeq(params, 1, Len(params) - 1)) \o params[Len(params)]

LastWins(codes, ch, old) ==
    LET touching == { k \in 1..Len(codes) : Affects(codes[k], ch) }
    IN  IF touching = {} THEN old ELSE TableValue(codes[Max(touching)], ch)

SgrDone(params, post) ==
    /\ \A ch \in Channels :
           post.visual_state[ch] = LastWins(CodesInOrder(params), ch, visual_state[ch])
    /\ SameBuffer(post, performer)
    /\ post.cursor = cursor
    /\ post.panic = NoPanic

\* C9: in every reachable state, a CSI 'm' leaves each channel with the value of
\* the last code of the sequence (groups in order, values in order within a
\* group) that the table gives to that channel, code 0 counting for all three;
\* a channel no code touches keeps its value; codes outside the table change
\* nothing and are not fatal.
C9_SgrLastWins ==
    pc = "read" =>
        /\ \A n \in 1..MaxParams : \A codes \in [1..n -> SgrSeqValues] :
               \A params \in Groupings(codes) :
                   SgrDone(params, csi_dispatch(performer, params, "m"))
        /\ \A p \in AllCodes :
               SgrDone(<<<<p>>>>, csi_dispatch(performer, <<<<p>>>>, "m"))

\* a bright foreground and a bright background are set, and a later code of the
\* same dispatch overrides an earlier one of its channel
C9_Witness ==
    /\ pc = "read"
    /\ visual_state = VisualState(None, N(97), N(100))
    /\ csi_dispatch(performer, <<<<39, 31>>>>, "m").visual_state.fg = N(31)
    /\ csi_dispatch(performer, <<<<1>>, <<22>>>>, "m").visual_state.intensity = None

-----------------------------------------------------------------------------
(* Properties of plain text, under SpecPlain *)

\* the events of the input "Hello\n"
HelloLf == <<Pr("H"), Pr("e"), Pr("l"), Pr("l"), Pr("o"), Ex(10)>>

\* C10: with print events and line feeds only, every cell style has all
\* channels unset, and what the serializer has printed is the buffer's
\* characters up to its index, verbatim and in order, with no span tag; at the
\* end the output is the whole buffer.  "Hello\n" is printed as "Hello\n".
C10_PlainVerbatim ==
    /\ \A k \in 1..Len(visuals) : visuals[k] = VisualState_new
    /\ out = SubSeq(chars, 1, i)
    /\ \A k \in 1..Len(out) : out[k] \in PrintChars \cup {LF}
    /\ ~previous_had_span
    /\ pc = "done" => out = chars
    /\ serialize(Run(Log_new, HelloLf)) = <<"H", "e", "l", "l", "o", LF>>

C10_Witness ==
    /\ pc = "done"
    /\ out = <<"a", LF, "X">>

-----------------------------------------------------------------------------
(* Properties of the serializer, under SpecSer *)

Count(seq, x) == Cardinality({ k \in 1..Len(seq) : seq[k] = x })

\* index k (0-based) starts a run: it is the first index, or its style differs
\* from the style of the index before
RunStart(vs, k) == k = 0 \/ vs[k + 1] # vs[k]

\* a style with some channel set
Styled(v) == v.intensity # None \/ v.fg # None \/ v.bg # None

\* the events of the input "\x1b[1mBold\x1b[0m Normal"
BoldNormal ==
    <<Csi(<<<<1>>>>, "m"), Pr("B"), Pr("o"), Pr("l"), Pr("d"), Csi(<<<<0>>>>, "m"),
      Pr(" "), Pr("N"), Pr("o"), Pr("r"), Pr("m"), Pr("a"), Pr("l")>>

\* C11: at every index i of the serializer loop, an opening span is printed,
\* directly before the character of index i, exactly when i starts a run
\* (i = 0 or styles[i] # styles[i-1]) and the style of i has some channel set;
\* so the spans printed so far are as many as the styled runs begun so far,
\* one per run and not one per character.  Bold "Bold" then reset " Normal"
\* is printed as <span class="sgr-bold">Bold</span> Normal.
C11_SpanPerRun ==
    /\ pc = "serialize" =>
           LET p == serialize_step(chars, visuals, i, previous_had_span).printed
               opening == RunStart(visuals, i) /\ Styled(visuals[i + 1])
           IN  /\ Count(p, "<span") = (IF opening THEN 1 ELSE 0)
               /\ opening =>
                      \E k \in 1..(Len(p) - 3) :
                          /\ p[k] = "<span"
                          /\ p[k + 2] = ">"
                          /\ p[k + 3] = chars[i + 1]
               /\ Count(p, chars[i + 1]) = 1
    /\ pc \in {"serialize", "done"} =>
           Count(out, "<span") =
               Cardinality({ k \in 0..(i - 1) :
                               RunStart(visuals, k) /\ Styled(visuals[k + 1]) })
    /\ join(serialize(Run(Log_new, BoldNormal)), "")
           = "<span class=\"sgr-bold\">Bold</span> Normal"

\* two cells of one style after a cell of another: two runs, two spans
C11_Witness ==
    /\ pc = "done"
    /\ Len(chars) = 3
    /\ visuals[1] = VisualState(Bold, None, None)
    /\ visuals[2] = VisualState(None, N(97), N(100))
    /\ visuals[3] = visuals[2]
    /\ Count(out, "<span") = 2

-----------------------------------------------------------------------------
(* Properties of the events the interpreter does not recognise, under Spec *)

\* the C0 and C1 control bytes other than line feed and carriage return
OtherControlBytes == ((0..31) \cup (128..159)) \ {10, 13}

\* CSI final characters other than 'm', 'K' and 'C'
OtherFinals == {"A", "B", "D", "H", "J", "h", "l", "@", "~"}

\* the events with no behaviour: OSC, DCS hook/put/unhook, ESC dispatch
OtherEvents ==
    { Event(kind, 0, <<>>) :
        kind \in {"hook", "put", "unhook", "osc_dispatch", "esc_dispatch"} }

\* C12: in every reachable state of the input loop, execute of a control byte
\* other than line feed and carriage return, a CSI dispatch with a final
\* character other than 'm', 'K', 'C' (whatever its parameters), and every
\* OSC, DCS hook/put/unhook and ESC dispatch event leave chars, styles, cursor
\* and style state as they were and are not fatal.
C12_UnrecognisedIgnored ==
    pc = "read" =>
        /\ \A byte \in OtherControlBytes : execute(performer, byte) = performer
        /\ \A c \in OtherFinals : \A params \in EraseParams :
               csi_dispatch(performer, params, c) = performer
        /\ \A e \in OtherEvents : advance(performer, e) = performer
        /\ panic = NoPanic

\* a state with something to lose: cells right of the cursor and a set style
C12_Witness ==
    /\ pc = "read"
    /\ Len(chars) = 3
    /\ cursor = 2
    /\ visual_state.intensity = Bold
    /\ execute(performer, 8) = performer
    /\ csi_dispatch(performer, <<<<2>>>>, "J") = performer

-----------------------------------------------------------------------------
(* Properties of the cell styles *)

\* a sequence without its cells [from, to) (0-based, half-open)
Without(seq, from, to) == SubSeq(seq, 1, from) \o SubSeq(seq, to + 1, Len(seq))

\* C13: every step of the input loop leaves each cell with the style it was
\* written with: a step that keeps or grows the buffer changes the character or
\* the style of no cell but the one at the cursor, and that one only by writing
\* it, character and current style state together, the cursor advancing by 1;
\* a step that shrinks the buffer removes a range of cells starting at the
\* cursor, the remaining cells keeping character and style in order.  After the
\* input loop no cell changes.  So an SGR dispatch, a carriage return or a
\* cursor-forward never changes the style of a written cell.
C13_StyleSnapshot ==
    [][ /\ pc = "read" /\ Len(chars') >= Len(chars) =>
               /\ \A k \in 1..Len(chars) :
                      (visuals'[k] # visuals[k] \/ chars'[k] # chars[k]) =>
                          /\ k = cursor + 1
                          /\ visuals'[k] = visual_state
                          /\ visual_state' = visual_state
                          /\ cursor' = cursor + 1
               /\ Len(chars') > Len(chars) =>
                      /\ cursor = Len(chars)
                      /\ Len(chars') = Len(chars) + 1
                      /\ visuals' = Append(visuals, visual_state)
                      /\ visual_state' = visual_state
        /\ pc = "read" /\ Len(chars') < Len(chars) =>
               \E j \in cursor..Len(chars) :
                   /\ chars' = Without(chars, cursor, j)
                   /\ visuals' = Without(visuals, cursor, j)
        /\ pc # "read" => chars' = chars /\ visuals' = visuals
      ]_vars

\* a cell written bold, cells written plain, and the style state plain again
C13_Witness ==
    /\ pc = "read"
    /\ Len(chars) = 3
    /\ cursor = 1
    /\ visuals[1].intensity = Bold
    /\ visuals[2].intensity = None
    /\ visual_state.intensity = None

\* the documented values of the three channels
DocumentedIntensity == {None, Bold}
DocumentedFg == {None} \cup { N(k) : k \in (30..37) \cup (90..97) }
DocumentedBg == {None} \cup { N(k) : k \in (40..47) \cup (100..107) }
Documented(v) ==
    /\ v.intensity \in DocumentedIntensity
    /\ v.fg \in DocumentedFg
    /\ v.bg \in DocumentedBg

\* C14: in every reachable state the style state and every cell style have
\* intensity unset or Bold, fg unset or Named 30..37 / 90..97, bg unset or
\* Named 40..47 / 100..107; every SGR code keeps the style state in these
\* values; no cell style makes print_span panic, and the panic of a color
\* outside the ranges has not happened.
C14_StylesDocumented ==
    /\ Documented(visual_state)
    /\ \A k \in 1..Len(visuals) : Documented(visuals[k])
    /\ \A p \in AllCodes : Documented(sgr_code(performer, p).visual_state)
    /\ \A k \in 1..Len(visuals) : print_span(visuals[k]).panic = NoPanic
    /\ panic.msg \notin {"fg_color", "bg_color"}

\* a buffer with a bold cell and a cell with both colors, serialized to the end
C14_Witness ==
    /\ pc = "done"
    /\ panic = NoPanic
    /\ Len(chars) = 2
    /\ visuals[1] = VisualState(Bold, N(97), N(100))
    /\ visuals[2] = VisualState(None, N(97), N(100))
    /\ visual_state = VisualState(Bold, None, None)

-----------------------------------------------------------------------------
(* Properties of the serializer *)

\* the number of spans open after the pieces of seq: opening tags minus
\* closing tags
Depth(seq) == Count(seq, "<span") - Count(seq, "</span>")

\* C15: at every point of the output no span or one span is open (never a
\* span inside a span, never a closing tag without an open span); while the
\* serializer runs, previous_had_span tells whether a span is open; when it has
\* finished none is open, so opening and closing tags are equal in number; an
\* empty buffer gives empty output.
C15_TwoStateSerializer ==
    /\ \A n \in 0..Len(out) : Depth(SubSeq(out, 1, n)) \in {0, 1}
    /\ pc = "read" => out = <<>> /\ ~previous_had_span
    /\ pc = "serialize" => (previous_had_span <=> Depth(out) = 1)
    /\ pc = "done" =>
           /\ Depth(out) = 0
           /\ Count(out, "<span") = Count(out, "</span>")
           /\ Len(chars) = 0 => out = <<>>
    /\ serialize(Log_new) = <<>>

\* a plain cell and then a run of two bold cells, serialized to the end
C15_Witness ==
    /\ pc = "done"
    /\ out = <<"a", "<span", " class=\"sgr-bold\"", ">", "a", "a", "</span>">>

-----------------------------------------------------------------------------
(* Properties of the line feed *)

\* C16: in every reachable state execute(0x0a) is write('\n'): the newline takes
\* the cell at the cursor with the current style state and the cursor advances
\* by 1; with the cursor before the end the cell is overwritten and the length
\* is kept, with the cursor at the end the buffer grows by that one cell; no
\* other cell changes.  A carriage return after a following character stops
\* just past the newline, and an erase started at or before the newline deletes
\* nothing from the newline on.
C16_LineFeedIsWrite ==
    pc = "read" =>
        LET post == execute(performer, 10)
            n == Len(chars)
        IN  /\ post = write(performer, LF)
            /\ post.cursor = cursor + 1
            /\ Len(post.chars) = (IF cursor < n THEN n ELSE n + 1)
            /\ Len(post.visuals) = Len(post.chars)
            /\ post.chars[cursor + 1] = LF
            /\ post.visuals[cursor + 1] = visual_state
            /\ \A k \in 1..n : k # cursor + 1 =>
                   post.chars[k] = chars[k] /\ post.visuals[k] = visuals[k]
            /\ post.visual_state = visual_state
            /\ post.panic = NoPanic
            /\ Run(post, <<Pr("a"), Ex(13)>>).cursor = cursor + 1
            /\ \A c \in 0..cursor :
                   LET erased == delete_to_end_of_line([post EXCEPT !.cursor = c])
                       kept == Len(post.chars) - cursor
                   IN  /\ Len(erased.chars) >= kept
                       /\ SubSeq(erased.chars, Len(erased.chars) - kept + 1, Len(erased.chars))
                              = SubSeq(post.chars, cursor + 1, Len(post.chars))

\* a line feed received after a carriage return: the buffer is "aX" with the
\* cursor at 0, and the line feed overwrites the "a" without growing the buffer
C16_Witness ==
    /\ pc = "read"
    /\ chars = <<"a", "X">>
    /\ cursor = 0
    /\ execute(performer, 10).chars = <<LF, "X">>
    /\ execute(performer, 10).cursor = 1

\* the documented styles
Styles ==
    { VisualState(a, f, b) :
          a \in DocumentedIntensity, f \in DocumentedFg, b \in DocumentedBg }

\* the decimal numeral of k, 1 <= k <= 8
Numeral == <<"1", "2", "3", "4", "5", "6", "7", "8">>

\* the classes of a style as documented, channel by channel
BoldClass(v) == IF v.intensity = Bold THEN <<"sgr-bold">> ELSE <<>>
FgClass(v) ==
    IF v.fg = None THEN <<>>
    ELSE IF v.fg.num <= 37 THEN <<"sgr-fg-" \o Numeral[v.fg.num - 29]>>
    ELSE <<"sgr-fg-b" \o Numeral[v.fg.num - 89]>>
BgClass(v) ==
    IF v.bg = None THEN <<>>
    ELSE IF v.bg.num <= 47 THEN <<"sgr-bg-" \o Numeral[v.bg.num - 39]>>
    ELSE <<"sgr-bg-b" \o Numeral[v.bg.num - 99]>>
ClassList(v) == BoldClass(v) \o FgClass(v) \o BgClass(v)

\* one, two or three classes separated by single spaces
Spaced(cl) ==
    IF Len(cl) = 1 THEN cl[1]
    ELSE IF Len(cl) = 2 THEN cl[1] \o " " \o cl[2]
    ELSE cl[1] \o " " \o cl[2] \o " " \o cl[3]

\* the opening tag of a style as documented
OpeningTag(v) ==
    IF ClassList(v) = <<>> THEN <<>>
    ELSE <<"<span", " class=\"" \o Spaced(ClassList(v)) \o "\"", ">">>

\* the class attribute of the span that is open at piece k of the output
OpenAttribute(k) ==
    LET j == CHOOSE j \in 1..k :
                 /\ out[j] = "<span"
                 /\ \A l \in (j + 1)..k : out[l] # "<span"
    IN  out[j + 1]

\* print_span prints the documented opening tag for every documented style
TagsAsDocumented ==
    \A v \in Styles :
        /\ print_span(v).panic = NoPanic
        /\ print_span(v).printed = OpeningTag(v)
        /\ print_span(v).span_printed = (ClassList(v) # <<>>)

\* different documented styles get different opening tags
TagsInjective ==
    Cardinality({ print_span(v).printed : v \in Styles }) = Cardinality(Styles)

\* C17: for every documented style print_span prints the opening tag whose
\* class attribute holds, in this order and joined by single spaces, sgr-bold
\* for Bold, sgr-fg-k (k = code - 29) or sgr-fg-bk (k = code - 89) for the
\* foreground, sgr-bg-k (k = code - 39) or sgr-bg-bk (k = code - 99) for the
\* background, an unset channel giving no class; different styles give different
\* tags; the styles the program reaches are documented styles; and in the
\* output a span opened right after a closing tag never has the class attribute
\* of the span just closed.
C17_ClassList ==
    /\ TagsAsDocumented
    /\ TagsInjective
    /\ visual_state \in Styles
    /\ \A k \in 1..Len(visuals) : visuals[k] \in Styles
    /\ \A k \in 1..(Len(out) - 2) :
           out[k] = "</span>" /\ out[k + 1] = "<span" =>
               out[k + 2] # OpenAttribute(k)

\* a run with all three classes directly followed by a run with two
C17_Witness ==
    /\ pc = "done"
    /\ out = <<"<span", " class=\"sgr-bold sgr-fg-b8 sgr-bg-b1\"", ">", "a", "</span>",
               "<span", " class=\"sgr-fg-b8 sgr-bg-b1\"", ">", "a", "</span>">>

-----------------------------------------------------------------------------
(* Properties of main *)

\* the read loop was left through the Err arm: the report is the first output
ReadFailed == out # <<>> /\ out[1] = "err: io::Error\n"

\* C18: nothing is serialized while the input loop runs; after a panic there is
\* no output; after a read failure the output is the report of the failure and
\* nothing else; after a normal end-of-stream the finished output is the
\* serialization of the buffer.
C18_SerializeOnlyAtEof ==
    /\ pc = "read" => out = <<>> /\ i = 0
    /\ pc = "panicked" => out = <<>>
    /\ ReadFailed => out = <<"err: io::Error\n">>
    /\ pc = "done" /\ ~ReadFailed => out = serialize(performer)

-----------------------------------------------------------------------------
(* Properties of the erase *)

\* the cursor does not exceed the length of the buffer: the condition under
\* which delete_range leaves the cursor alone
ClampNotTaken(post, log) == ~(log.cursor > Len(post.chars))

\* C19: in every reachable state of the input loop erase-to-end-of-line, called
\* directly or through a CSI 'K' with mode 0, leaves the cursor where it was,
\* and the buffer that remains is not shorter than the cursor, so that
\* delete_range does not clamp; the same holds with the cursor placed anywhere
\* before its position, where the scan can stop at a newline.
C19_EraseKeepsCursor ==
    pc = "read" =>
        /\ delete_to_end_of_line(performer).cursor = cursor
        /\ ClampNotTaken(delete_to_end_of_line(performer), performer)
        /\ csi_dispatch(performer, <<<<0>>>>, "K").cursor = cursor
        /\ delete_to_end_of_line(performer).visual_state = visual_state
        /\ \A log \in CursorMovedBack :
               /\ delete_to_end_of_line(log).cursor = log.cursor
               /\ ClampNotTaken(delete_to_end_of_line(log), log)

\* an erase in the middle of a line of three cells: two cells go, the cursor
\* stays at 1
C19_Witness ==
    /\ pc = "read"
    /\ chars = <<"a", "X", "a">>
    /\ cursor = 1
    /\ csi_dispatch(performer, <<<<0>>>>, "K").chars = <<"a">>
    /\ csi_dispatch(performer, <<<<0>>>>, "K").cursor = 1

\* after an erase the cursor is at the end of the buffer or on a newline cell
AtEndOfLine(log) ==
    log.cursor = Len(log.chars) \/ log.chars[log.cursor + 1] = LF

\* erasing twice is erasing once
ErasedTwice(log) ==
    /\ AtEndOfLine(delete_to_end_of_line(log))
    /\ delete_to_end_of_line(delete_to_end_of_line(log)) = delete_to_end_of_line(log)

\* the parameters of a CSI 'K' that carry the value 0 twice: in one group, and
\* in two groups
ZeroTwice == {<<<<0, 0>>>>, <<<<0>>, <<0>>>>}

\* C20 as stated: erase-to-end-of-line is idempotent in every reachable state,
\* and a CSI 'K' whose single parameter group carries the value 0 twice has the
\* effect of a single erase.
C20_EraseIdempotentGroup ==
    pc = "read" =>
        /\ ErasedTwice(performer)
        /\ csi_dispatch(performer, <<<<0, 0>>>>, "K") = delete_to_end_of_line(performer)

\* C20 amended: erase-to-end-of-line is idempotent in every reachable state of
\* the input loop (after the first erase the cursor is at the end of the buffer
\* or on a newline cell, so the second removes nothing), also with the cursor
\* placed anywhere before its position; two successive CSI 'K' with the single
\* value 0 have the effect of one; a CSI 'K' that carries the value 0 twice, in
\* one group or in two, is fatal for its number of parameters and erases
\* nothing.
C20_EraseIdempotent ==
    pc = "read" =>
        /\ ErasedTwice(performer)
        /\ \A log \in CursorMovedBack : ErasedTwice(log)
        /\ Run(performer, <<Csi(<<<<0>>>>, "K"), Csi(<<<<0>>>>, "K")>>)
               = csi_dispatch(performer, <<<<0>>>>, "K")
        /\ \A params \in ZeroTwice :
               LET post == csi_dispatch(performer, params, "K")
               IN  /\ post.panic = Panic("K_params", 2)
                   /\ SameBuffer(post, performer)
                   /\ post.cursor = cursor

\* two cells right of the cursor: the first erase removes both, the second
\* nothing, and the erase with the value 0 twice in its group is fatal
C20_Witness ==
    /\ pc = "read"
    /\ chars = <<"X", "a", "a">>
    /\ cursor = 1
    /\ delete_to_end_of_line(performer).chars = <<"X">>
    /\ delete_to_end_of_line(delete_to_end_of_line(performer)).chars = <<"X">>
    /\ Panicked(csi_dispatch(performer, <<<<0, 0>>>>, "K"))

====
